---- MODULE Spec2Model ----
(***************************************************************************)
(* CharmPay application contract (charm-pay-app/src/lib.rs).               *)
(*                                                                         *)
(* The contract is a set of pure predicates over an application descriptor,*)
(* a transaction, a public input and a witness.  Unsigned 64-bit amounts   *)
(* are scaled down to 0..MaxU64 and keep their wrap-around modulus.  A     *)
(* subtraction that underflows either panics (a build with overflow checks)*)
(* or wraps (a build without): the build is not fixed by the source, so    *)
(* overflowChecks is chosen freely in the initial state.                   *)
(*                                                                         *)
(* Every predicate returns "true", "false" or "panic" (the call aborts).   *)
(***************************************************************************)
EXTENDS Integers, Sequences, FiniteSets, TLC

VARIABLES
    overflowChecks, \* TRUE: arithmetic overflow panics; FALSE: it wraps
    call,           \* the last call made to the contract: function and arguments
    ret,            \* what that call returned
    utxos,          \* the ledger: the unspent outputs, id and charms
    txCount,        \* transactions committed to the ledger
    freshMints      \* committed transactions that produced a certificate
                    \* while consuming none

vars == <<overflowChecks, call, ret, utxos, txCount, freshMints>>

(***************************** bounds **************************************)

\* The largest unsigned amount of the model; u64 arithmetic is modulo MaxU64 + 1.
MaxU64 == 3
\* Transactions the ledger commits before it stops.
MaxTxs == 2

Modulus == MaxU64 + 1
U64 == 0..MaxU64

(************************* options and results *****************************)

None == [some |-> FALSE]
Some(v) == [some |-> TRUE, val |-> v]

Bool(b) == IF b THEN "true" ELSE "false"

\* a || b over calls that may panic: b is evaluated only when a returned false.
OrElse(a, b) == IF a = "false" THEN b ELSE a

Min(S) == CHOOSE m \in S : \A n \in S : m <= n

(************************** charms_sdk::data *******************************)

NFT == "n"
TOKEN == "t"

\* Data::empty()
EmptyData == [cbor |-> "null"]

\* Data::value::<String>()
ValueString(d) == IF d.cbor = "text" THEN Some(d.text) ELSE None

\* Data::value::<u64>()
ValueU64(d) == IF d.cbor = "uint" THEN Some(d.value) ELSE None

\* Data::value::<NftContent>(): a map decodes when it holds every field of the
\* struct; fields the struct does not name are ignored.
NftContentFields == {"ticker", "remaining"}

ValueNftContent(d) ==
    IF d.cbor = "map" /\ NftContentFields \subseteq DOMAIN d
    THEN Some([ticker |-> d.ticker, remaining |-> d.remaining])
    ELSE None

\* Data::value::<MinimalSubscriptionState>()
MinimalSubscriptionStateFields ==
    {"payer_pubkey", "merchant_pubkey", "amount_sats", "billing_interval_blocks",
     "last_payment_block", "is_active", "remaining_balance"}

ValueMinimalSubscriptionState(d) ==
    IF d.cbor = "map" /\ MinimalSubscriptionStateFields \subseteq DOMAIN d
    THEN Some([payer_pubkey |-> d.payer_pubkey,
               merchant_pubkey |-> d.merchant_pubkey,
               amount_sats |-> d.amount_sats,
               billing_interval_blocks |-> d.billing_interval_blocks,
               last_payment_block |-> d.last_payment_block,
               is_active |-> d.is_active,
               remaining_balance |-> d.remaining_balance])
    ELSE None

\* tx.ins.iter().map(|(_, v)| v)
InsCharms(tx) == [i \in 1..Len(tx.ins) |-> tx.ins[i].charms]

\* charm_values(app, strings): the payloads the strings of charms hold for app,
\* in order.
RECURSIVE charm_values(_, _)
charm_values(app, strings) ==
    IF strings = <<>> THEN <<>>
    ELSE (IF app \in DOMAIN Head(strings) THEN <<Head(strings)[app]>> ELSE <<>>)
         \o charm_values(app, Tail(strings))

\* .find_map(|data| data.value().ok()) into Option<NftContent>: the first
\* payload that decodes as NftContent.
FindNftContent(datas) ==
    LET hits == {i \in 1..Len(datas) : ValueNftContent(datas[i]).some}
    IN  IF hits = {} THEN None ELSE ValueNftContent(datas[Min(hits)])

\* .find_map(|data| data.value().ok()) into Option<MinimalSubscriptionState>
FindMinimalSubscriptionState(datas) ==
    LET hits == {i \in 1..Len(datas) : ValueMinimalSubscriptionState(datas[i]).some}
    IN  IF hits = {} THEN None ELSE ValueMinimalSubscriptionState(datas[Min(hits)])

\* sum_token_amount(app, strings): the sum of the amounts the strings hold for
\* app; an error when one of them is no amount.
RECURSIVE SumAmounts(_)
SumAmounts(datas) ==
    IF datas = <<>> THEN 0 ELSE ValueU64(Head(datas)).val + SumAmounts(Tail(datas))

sum_token_amount(app, strings) ==
    LET datas == charm_values(app, strings)
    IN  IF \E i \in 1..Len(datas) : ~ValueU64(datas[i]).some
        THEN None
        ELSE Some(SumAmounts(datas))

\* UtxoId::from_str: "<txid>:<index>"
TxIds == {"tx0", "tx1", "tx2", "tx3"}
IndexText == <<"0", "1">>

UtxoIdFromStr(s) ==
    IF Len(s) = 3 /\ s[2] = ":" /\ s[1] \in TxIds
       /\ \E i \in 1..Len(IndexText) : IndexText[i] = s[3]
    THEN Some([txid |-> s[1],
               index |-> (CHOOSE i \in 1..Len(IndexText) : IndexText[i] = s[3]) - 1])
    ELSE None

\* UtxoId::to_string
UtxoIdToString(u) == <<u.txid, ":", IndexText[u.index + 1]>>

(****************************** arithmetic *********************************)

\* a - b on u64: a panic with overflow checks, the wrapped difference without.
SubU64(a, b) ==
    IF a >= b THEN Some(a - b)
    ELSE IF overflowChecks THEN None
    ELSE Some((a + Modulus - b) % Modulus)

(******************************* lib.rs ************************************)

\* hash(data): SHA-256, taken to be injective.
hash(data) == <<"sha256", data>>

PairedApp(app, tag) == [tag |-> tag, identity |-> app.identity, vk |-> app.vk]

can_mint_nft(nft_app, tx, w) ==
    LET w_str == ValueString(w)
    IN  IF ~w_str.some THEN "false"
        ELSE IF hash(w_str.val) # nft_app.identity THEN "false"
        ELSE LET w_utxo_id == UtxoIdFromStr(w_str.val)
             IN  IF ~w_utxo_id.some THEN "panic"
                 ELSE IF ~\E i \in 1..Len(tx.ins) : tx.ins[i].utxo_id = w_utxo_id.val
                      THEN "false"
                 ELSE LET nft_charms == charm_values(nft_app, tx.outs)
                      IN  IF Len(nft_charms) # 1 THEN "false"
                          ELSE IF ValueMinimalSubscriptionState(nft_charms[1]).some
                               THEN "true"
                          ELSE Bool(ValueNftContent(nft_charms[1]).some)

can_mint_token(token_app, tx) ==
    LET nft_app == PairedApp(token_app, NFT)
        incoming_nft == FindNftContent(charm_values(nft_app, InsCharms(tx)))
        outgoing_nft == FindNftContent(charm_values(nft_app, tx.outs))
        input_token_amount == sum_token_amount(token_app, InsCharms(tx))
        output_token_amount == sum_token_amount(token_app, tx.outs)
    IN  IF ~outgoing_nft.some THEN "false"
        ELSE IF ~input_token_amount.some THEN "false"
        ELSE IF ~output_token_amount.some THEN "false"
        ELSE IF incoming_nft.some
             THEN IF ~(incoming_nft.val.remaining >= outgoing_nft.val.remaining)
                  THEN "false"
                  ELSE LET minted == SubU64(output_token_amount.val,
                                            input_token_amount.val)
                       IN  IF ~minted.some THEN "panic"
                           ELSE Bool(minted.val = incoming_nft.val.remaining
                                                    - outgoing_nft.val.remaining)
        ELSE Bool(input_token_amount.val = 0
                  /\ output_token_amount.val = outgoing_nft.val.remaining)

\* check!(c1); check!(c2): the second is evaluated only when the first held.
AndThen(a, b) == IF a = "true" THEN b ELSE a

\* The activity check with the produced state's flag left out.
check_is_active_incoming_only(in_state, out_state) == Bool(in_state.is_active)

\* 1. Validate subscription is active
check_is_active(in_state, out_state) ==
    AndThen(Bool(in_state.is_active), Bool(out_state.is_active))

\* The immutable-field check with amount_sats left out.
check_immutable_fields_without_amount(in_state, out_state) ==
    AndThen(Bool(in_state.payer_pubkey = out_state.payer_pubkey),
    AndThen(Bool(in_state.merchant_pubkey = out_state.merchant_pubkey),
            Bool(in_state.billing_interval_blocks
                    = out_state.billing_interval_blocks)))

\* 2. Validate immutable fields don't change
check_immutable_fields(in_state, out_state) ==
    AndThen(Bool(in_state.payer_pubkey = out_state.payer_pubkey),
    AndThen(Bool(in_state.merchant_pubkey = out_state.merchant_pubkey),
    AndThen(Bool(in_state.amount_sats = out_state.amount_sats),
            Bool(in_state.billing_interval_blocks
                    = out_state.billing_interval_blocks))))

\* The balance check with the comparison in >= out left out.
check_payment_amount_without_order(in_state, out_state) ==
    LET payment_amount == SubU64(in_state.remaining_balance,
                                 out_state.remaining_balance)
        expected == SubU64(in_state.remaining_balance, in_state.amount_sats)
    IN  IF ~payment_amount.some THEN "panic"
        ELSE IF payment_amount.val # in_state.amount_sats THEN "false"
        ELSE IF ~expected.some THEN "panic"
        ELSE Bool(out_state.remaining_balance = expected.val)

\* 3. Validate payment amount matches subscription amount
\* 4. Validate remaining balance decreases correctly
check_payment_amount(in_state, out_state) ==
    LET payment_amount == SubU64(in_state.remaining_balance,
                                 out_state.remaining_balance)
        expected == SubU64(in_state.remaining_balance, in_state.amount_sats)
    IN  IF ~payment_amount.some THEN "panic"
        ELSE IF payment_amount.val # in_state.amount_sats THEN "false"
        ELSE IF ~(in_state.remaining_balance >= out_state.remaining_balance)
             THEN "false"
        ELSE IF ~expected.some THEN "panic"
        ELSE Bool(out_state.remaining_balance = expected.val)

\* The payment-marker check left out.
check_last_payment_block_unchecked(in_state, out_state) == "true"

\* 5. Validate last_payment_block is updated
check_last_payment_block(in_state, out_state) ==
    Bool(out_state.last_payment_block >= in_state.last_payment_block)

\* 6. Validate token amounts match
check_token_amounts(token_app, tx) ==
    LET input_token_amount == sum_token_amount(token_app, InsCharms(tx))
        output_token_amount == sum_token_amount(token_app, tx.outs)
    IN  IF ~input_token_amount.some THEN "false"
        ELSE IF ~output_token_amount.some THEN "false"
        ELSE Bool(output_token_amount.val = input_token_amount.val)

validate_subscription_payment_full(in_state, out_state, token_app, tx) ==
    AndThen(check_is_active(in_state, out_state),
    AndThen(check_immutable_fields(in_state, out_state),
    AndThen(check_payment_amount(in_state, out_state),
    AndThen(check_last_payment_block(in_state, out_state),
            check_token_amounts(token_app, tx)))))

\* The legacy path's token check, with the check left out.
legacy_token_amounts_unchecked(token_app, tx) == "true"

\* For subscription payments: tokens are transferred (output == input)
legacy_token_amounts(token_app, tx) ==
    LET input_token_amount == sum_token_amount(token_app, InsCharms(tx))
        output_token_amount == sum_token_amount(token_app, tx.outs)
    IN  IF ~input_token_amount.some THEN "false"
        ELSE IF ~output_token_amount.some THEN "false"
        ELSE Bool(output_token_amount.val = input_token_amount.val)

\* The payment validator with the legacy path's comparison of remaining left out.
can_execute_subscription_payment_unordered(token_app, tx) ==
    LET nft_app == PairedApp(token_app, NFT)
        incoming_state ==
            FindMinimalSubscriptionState(charm_values(nft_app, InsCharms(tx)))
        outgoing_state ==
            FindMinimalSubscriptionState(charm_values(nft_app, tx.outs))
        incoming_nft == FindNftContent(charm_values(nft_app, InsCharms(tx)))
        outgoing_nft == FindNftContent(charm_values(nft_app, tx.outs))
    IN  IF incoming_state.some /\ outgoing_state.some
        THEN validate_subscription_payment_full(incoming_state.val, outgoing_state.val,
                                                token_app, tx)
        ELSE IF ~incoming_nft.some THEN "false"
        ELSE IF ~outgoing_nft.some THEN "false"
        ELSE legacy_token_amounts(token_app, tx)

can_execute_subscription_payment(token_app, tx) ==
    LET nft_app == PairedApp(token_app, NFT)
        incoming_state ==
            FindMinimalSubscriptionState(charm_values(nft_app, InsCharms(tx)))
        outgoing_state ==
            FindMinimalSubscriptionState(charm_values(nft_app, tx.outs))
        incoming_nft == FindNftContent(charm_values(nft_app, InsCharms(tx)))
        outgoing_nft == FindNftContent(charm_values(nft_app, tx.outs))
    IN  IF incoming_state.some /\ outgoing_state.some
        THEN validate_subscription_payment_full(incoming_state.val, outgoing_state.val,
                                                token_app, tx)
        ELSE IF ~incoming_nft.some THEN "false"
        ELSE IF ~outgoing_nft.some THEN "false"
        ELSE IF ~(incoming_nft.val.remaining >= outgoing_nft.val.remaining) THEN "false"
        ELSE legacy_token_amounts(token_app, tx)

\* The cancellation check with the zero-balance check left out.
validate_subscription_cancellation_without_balance(in_state, out_state, tx) ==
    IF ~in_state.is_active THEN "false"
    ELSE IF out_state.is_active THEN "false"
    ELSE IF in_state.payer_pubkey # out_state.payer_pubkey THEN "false"
    ELSE IF in_state.merchant_pubkey # out_state.merchant_pubkey THEN "false"
    ELSE IF in_state.amount_sats # out_state.amount_sats THEN "false"
    ELSE Bool(in_state.billing_interval_blocks = out_state.billing_interval_blocks)

validate_subscription_cancellation(in_state, out_state, tx) ==
    IF ~in_state.is_active THEN "false"
    ELSE IF out_state.is_active THEN "false"
    ELSE IF out_state.remaining_balance # 0 THEN "false"
    ELSE IF in_state.payer_pubkey # out_state.payer_pubkey THEN "false"
    ELSE IF in_state.merchant_pubkey # out_state.merchant_pubkey THEN "false"
    ELSE IF in_state.amount_sats # out_state.amount_sats THEN "false"
    ELSE Bool(in_state.billing_interval_blocks = out_state.billing_interval_blocks)

token_contract_satisfied(token_app, tx) ==
    OrElse(can_mint_token(token_app, tx), can_execute_subscription_payment(token_app, tx))

\* The certificate validator falling back to both TOKEN validators.
nft_contract_satisfied_with_payment(app, tx, w) ==
    LET token_app == PairedApp(app, TOKEN)
    IN  OrElse(can_mint_nft(app, tx, w), token_contract_satisfied(token_app, tx))

nft_contract_satisfied(app, tx, w) ==
    LET token_app == PairedApp(app, TOKEN)
    IN  OrElse(can_mint_nft(app, tx, w), can_mint_token(token_app, tx))

\* The dispatch with the assertion on the public input left out.
app_contract_public_input_unchecked(app, tx, x, w) ==
    IF app.tag = NFT THEN nft_contract_satisfied(app, tx, w)
    ELSE IF app.tag = TOKEN THEN token_contract_satisfied(app, tx)
    ELSE "panic"

\* The dispatch with another tag rejected instead of trapped.
app_contract_other_tag_rejected(app, tx, x, w) ==
    IF x # EmptyData THEN "panic"
    ELSE IF app.tag = NFT THEN nft_contract_satisfied(app, tx, w)
    ELSE IF app.tag = TOKEN THEN token_contract_satisfied(app, tx)
    ELSE "false"

app_contract(app, tx, x, w) ==
    IF x # EmptyData THEN "panic"
    ELSE IF app.tag = NFT THEN nft_contract_satisfied(app, tx, w)
    ELSE IF app.tag = TOKEN THEN token_contract_satisfied(app, tx)
    ELSE "panic"

(************************ payloads and transactions ************************)

Minimal(payer, merchant, amount, interval, block, active, balance) ==
    [cbor |-> "map", payer_pubkey |-> payer, merchant_pubkey |-> merchant,
     amount_sats |-> amount, billing_interval_blocks |-> interval,
     last_payment_block |-> block, is_active |-> active,
     remaining_balance |-> balance]

Legacy(remaining) ==
    [cbor |-> "map", ticker |-> "SUBSCRIPTION-sub_001", remaining |-> remaining]

Amount(v) == [cbor |-> "uint", value |-> v]
Text(s) == [cbor |-> "text", text |-> s]

\* A map that is neither certificate shape.
Unshaped == [cbor |-> "map", name |-> "other"]
JunkText == <<"junk">>

GenesisUtxo == [txid |-> "tx0", index |-> 0]
OtherUtxo == [txid |-> "tx0", index |-> 1]

\* The paired application: its identity commits to the genesis output.
Identity == hash(UtxoIdToString(GenesisUtxo))
NftApp == [tag |-> NFT, identity |-> Identity, vk |-> "vk"]
TokenApp == [tag |-> TOKEN, identity |-> Identity, vk |-> "vk"]
\* A certificate application of another identity.
ForeignNftApp == [tag |-> NFT, identity |-> hash(UtxoIdToString(OtherUtxo)), vk |-> "vk"]

Slot(app, data) == [app |-> app, data |-> data]

\* Charms: the payloads of one ledger output, by application.
Charms(slots) ==
    [a \in {s.app : s \in slots} |-> (CHOOSE s \in slots : s.app = a).data]

Payers == {"payerA", "payerB"}
Merchants == {"merchantA", "merchantB"}
Intervals == {144, 288}
\* Block heights: last_payment_block is only compared.
Blocks == {850000, 850100}

\* Every MinimalSubscriptionState of the model.
MinimalStates ==
    {Minimal(p, m, a, i, b, act, bal) :
        p \in Payers, m \in Merchants, a \in U64, i \in Intervals, b \in Blocks,
        act \in BOOLEAN, bal \in U64}

\* The consumed side of a payment: one payer, merchant and interval, since the
\* strings and the interval are only compared with the produced side's.
IncomingStates ==
    {s \in MinimalStates : /\ s.payer_pubkey = "payerA"
                           /\ s.merchant_pubkey = "merchantA"
                           /\ s.billing_interval_blocks = 144}

\* A smaller family of certificates for whole-transaction calls.
SomeStates ==
    {s \in IncomingStates : s.amount_sats = 1 /\ s.last_payment_block = 850000}

\* What one output may hold for the certificate application.
CertSlots ==
    {{}} \cup {{Slot(NftApp, d)} : d \in SomeStates \cup {Legacy(r) : r \in U64}
                                           \cup {Unshaped}}
         \cup {{Slot(ForeignNftApp, Legacy(MaxU64))}}

\* What one output may hold for the credit application.
TokenSlots ==
    {{}} \cup {{Slot(TokenApp, d)} : d \in {Amount(v) : v \in U64} \cup {Text(JunkText)}}

\* Token holdings of a transfer: equal, unequal, or not an amount on one side.
TransferSlots ==
    {<<{Slot(TokenApp, Amount(1))}, {Slot(TokenApp, Amount(1))}>>,
     <<{Slot(TokenApp, Amount(1))}, {Slot(TokenApp, Amount(2))}>>,
     <<{Slot(TokenApp, Text(JunkText))}, {Slot(TokenApp, Amount(1))}>>,
     <<{Slot(TokenApp, Amount(1))}, {Slot(TokenApp, Text(JunkText))}>>,
     <<{}, {}>>}

\* A transaction that consumes one output and produces one.
Tx1(utxo_id, inSlots, outSlots) ==
    [ins |-> <<[utxo_id |-> utxo_id, charms |-> Charms(inSlots)]>>,
     outs |-> <<Charms(outSlots)>>]

(******************************* calls *************************************)

NoCall == [fn |-> "none"]

Idle == call = NoCall

UnchangedLedger == UNCHANGED <<overflowChecks, utxos, txCount, freshMints>>

CallCanMintToken ==
    /\ Idle
    /\ \E ci \in CertSlots, co \in CertSlots, ti \in TokenSlots, to \in TokenSlots :
         LET tx == Tx1(OtherUtxo, ci \cup ti, co \cup to)
         IN  /\ call' = [fn |-> "can_mint_token", app |-> TokenApp, tx |-> tx]
             /\ ret' = can_mint_token(TokenApp, tx)
    /\ UnchangedLedger

CallCanExecuteSubscriptionPayment ==
    /\ Idle
    /\ \E ci \in CertSlots, co \in CertSlots, tt \in TransferSlots :
         LET tx == Tx1(OtherUtxo, ci \cup tt[1], co \cup tt[2])
         IN  /\ call' = [fn |-> "can_execute_subscription_payment",
                         app |-> TokenApp, tx |-> tx]
             /\ ret' = can_execute_subscription_payment(TokenApp, tx)
    /\ UnchangedLedger

CallValidateSubscriptionPaymentFull ==
    /\ Idle
    /\ \E in_state \in IncomingStates, out_state \in MinimalStates,
          tt \in TransferSlots :
         LET tx == Tx1(OtherUtxo, {Slot(NftApp, in_state)} \cup tt[1],
                       {Slot(NftApp, out_state)} \cup tt[2])
             in_decoded == ValueMinimalSubscriptionState(in_state).val
             out_decoded == ValueMinimalSubscriptionState(out_state).val
         IN  /\ call' = [fn |-> "validate_subscription_payment_full",
                         in_state |-> in_decoded, out_state |-> out_decoded,
                         app |-> TokenApp, tx |-> tx]
             /\ ret' = validate_subscription_payment_full(in_decoded, out_decoded,
                                                          TokenApp, tx)
    /\ UnchangedLedger

\* Calls of the dispatch entry point: any tag, an empty or a non-empty public
\* input, no witness or a witness naming either output or no output at all.
ContractTags == {NFT, TOKEN, "x"}
PublicInputs == {EmptyData, Text(JunkText)}
Witnesses ==
    {EmptyData, Text(UtxoIdToString(GenesisUtxo)), Text(UtxoIdToString(OtherUtxo)),
     Text(JunkText)}

ContractCertSlots ==
    {{}} \cup {{Slot(NftApp, d)} :
                 d \in {Legacy(1), Legacy(2),
                        Minimal("payerA", "merchantA", 1, 144, 850000, TRUE, 2),
                        Minimal("payerA", "merchantA", 1, 144, 850000, TRUE, 1),
                        Minimal("payerA", "merchantA", 1, 144, 850000, FALSE, 1)}}

ContractTokenSlots == {{}} \cup {{Slot(TokenApp, Amount(v))} : v \in {1, 2}}

\* An application's identity is any digest: the commitment to the genesis
\* output, or the digest of a text that is no output identifier.
Identities == {Identity, hash(JunkText)}

\* The slots with the pair's applications moved to another identity.
Rekey(slots, identity) ==
    {Slot(IF s.app.identity = Identity THEN [s.app EXCEPT !.identity = identity]
                                       ELSE s.app, s.data) : s \in slots}

CallAppContract ==
    /\ Idle
    /\ \E tag \in ContractTags, identity \in Identities,
          x \in PublicInputs, w \in Witnesses,
          utxo_id \in {GenesisUtxo, OtherUtxo},
          ci \in ContractCertSlots, co \in ContractCertSlots,
          ti \in ContractTokenSlots, to \in ContractTokenSlots :
         LET app == [tag |-> tag, identity |-> identity, vk |-> "vk"]
             tx == Tx1(utxo_id, Rekey(ci \cup ti, identity),
                       Rekey(co \cup to, identity))
         IN  /\ call' = [fn |-> "app_contract", app |-> app, tx |-> tx,
                         x |-> x, w |-> w]
             /\ ret' = app_contract(app, tx, x, w)
    /\ UnchangedLedger

\* Calls of the cancellation check: the transaction conserves credits or not.
CancellationSlots ==
    {<<{}, {}>>, <<{Slot(TokenApp, Amount(1))}, {Slot(TokenApp, Amount(2))}>>}

CallValidateSubscriptionCancellation ==
    /\ Idle
    /\ \E in_state \in IncomingStates, out_state \in MinimalStates,
          tt \in CancellationSlots :
         LET tx == Tx1(OtherUtxo, {Slot(NftApp, in_state)} \cup tt[1],
                       {Slot(NftApp, out_state)} \cup tt[2])
             in_decoded == ValueMinimalSubscriptionState(in_state).val
             out_decoded == ValueMinimalSubscriptionState(out_state).val
         IN  /\ call' = [fn |-> "validate_subscription_cancellation",
                         in_state |-> in_decoded, out_state |-> out_decoded,
                         tx |-> tx]
             /\ ret' = validate_subscription_cancellation(in_decoded, out_decoded, tx)
    /\ UnchangedLedger

\* Calls of the fresh-mint check: the produced outputs hold no, one or two
\* payloads of the certificate application, of either shape or of none.
MintCertSlots ==
    {{}} \cup {{Slot(NftApp, d)} :
                 d \in {Minimal("payerA", "merchantA", 1, 144, 850000, TRUE, 1),
                        Legacy(1), Unshaped, Amount(1)}}
         \cup {{Slot(ForeignNftApp, Legacy(1))}}

MintOuts ==
    {<<>>} \cup {<<a>> : a \in MintCertSlots}
           \cup {<<a, b>> : a \in MintCertSlots, b \in MintCertSlots}

CallCanMintNft ==
    /\ Idle
    /\ \E identity \in Identities, w \in Witnesses,
          utxo_id \in {GenesisUtxo, OtherUtxo}, outs \in MintOuts :
         LET app == [tag |-> NFT, identity |-> identity, vk |-> "vk"]
             tx == [ins |-> <<[utxo_id |-> utxo_id, charms |-> Charms({})]>>,
                    outs |-> [i \in 1..Len(outs) |->
                                Charms(Rekey(outs[i], identity))]]
         IN  /\ call' = [fn |-> "can_mint_nft", app |-> app, tx |-> tx, w |-> w]
             /\ ret' = can_mint_nft(app, tx, w)
    /\ UnchangedLedger

(******************************* ledger ************************************)

\* The host: it evaluates the contract on a candidate transaction that consumes
\* one or two unspent outputs and produces at most two, under the NFT and the
\* TOKEN application of the pair, and commits the transaction when both accept.
\* A committed transaction's outputs are new unspent outputs; its inputs are
\* spent for good.

TxName == <<"tx0", "tx1", "tx2", "tx3">>

UtxoRank(u) == 2 * (CHOOSE i \in 1..Len(TxName) : TxName[i] = u.txid) + u.index

\* The consumed outputs in the order of their identifiers.
RECURSIVE InsOf(_, _)
InsOf(ledger, ids) ==
    IF ids = {} THEN <<>>
    ELSE LET u == CHOOSE v \in ids : \A o \in ids : UtxoRank(v) <= UtxoRank(o)
         IN  <<[utxo_id |-> u, charms |-> ledger[u]]>> \o InsOf(ledger, ids \ {u})

LedgerCertSlots ==
    {{}} \cup {{Slot(NftApp, d)} :
                 d \in {Legacy(1)}
                       \cup {Minimal("payerA", "merchantA", 1, 144, 850000, act, 1) :
                               act \in BOOLEAN}}

LedgerTokenSlots == {{}, {Slot(TokenApp, Amount(1))}}

LedgerCharms == {Charms(c \cup t) : c \in LedgerCertSlots, t \in LedgerTokenSlots}

LedgerOuts ==
    {<<>>} \cup {<<a>> : a \in LedgerCharms}
           \cup {<<a, b>> : a \in LedgerCharms, b \in LedgerCharms}

LedgerWitnesses == {EmptyData, Text(UtxoIdToString(GenesisUtxo))}

\* The certificates of the pair among strings of charms, either shape.
Certificates(strings) ==
    LET datas == charm_values(NftApp, strings)
    IN  {i \in 1..Len(datas) : \/ ValueMinimalSubscriptionState(datas[i]).some
                               \/ ValueNftContent(datas[i]).some}

IsFreshMint(tx) ==
    Certificates(tx.outs) # {} /\ Certificates(InsCharms(tx)) = {}

Candidates ==
    {[ins |-> InsOf(utxos, ids), outs |-> outs] :
        ids \in {S \in SUBSET DOMAIN utxos : Cardinality(S) \in {1, 2}},
        outs \in LedgerOuts}

Accepted(tx, w) ==
    /\ app_contract(NftApp, tx, EmptyData, w) = "true"
    /\ app_contract(TokenApp, tx, EmptyData, w) = "true"

Commit ==
    /\ txCount < MaxTxs
    /\ \E tx \in Candidates, w \in LedgerWitnesses :
         /\ Accepted(tx, w)
         /\ LET spent == {tx.ins[i].utxo_id : i \in 1..Len(tx.ins)}
                made == [u \in {[txid |-> TxName[txCount + 2], index |-> i - 1] :
                                   i \in 1..Len(tx.outs)}
                           |-> tx.outs[u.index + 1]]
            IN  utxos' = [u \in (DOMAIN utxos \ spent) \cup DOMAIN made |->
                            IF u \in DOMAIN made THEN made[u] ELSE utxos[u]]
         /\ txCount' = txCount + 1
         /\ freshMints' = freshMints + (IF IsFreshMint(tx) THEN 1 ELSE 0)
         /\ call' = [fn |-> "commit", tx |-> tx, w |-> w]
         /\ ret' = "true"
    /\ UNCHANGED overflowChecks

Reject ==
    /\ txCount < MaxTxs
    /\ \E tx \in Candidates, w \in LedgerWitnesses :
         /\ ~Accepted(tx, w)
         /\ call' = [fn |-> "reject"]
         /\ ret' = "false"
    /\ UNCHANGED <<overflowChecks, utxos, txCount, freshMints>>

\* A chain of payments: a certificate is opened, then each payment the
\* full-state check accepts consumes the certificate the previous step
\* produced.  The call remembers the certificate the chain started from.
OpenSubscription ==
    /\ Idle
    /\ \E s \in IncomingStates :
         LET opened == ValueMinimalSubscriptionState(s).val
         IN  call' = [fn |-> "open", first |-> opened, out_state |-> opened]
    /\ ret' = "none"
    /\ UnchangedLedger

ExecutePayment ==
    /\ call.fn \in {"open", "payment"}
    /\ txCount < MaxTxs
    /\ \E out_state \in MinimalStates, tt \in TransferSlots :
         LET in_state == call.out_state
             tx == Tx1(OtherUtxo, {Slot(NftApp, Minimal(in_state.payer_pubkey,
                           in_state.merchant_pubkey, in_state.amount_sats,
                           in_state.billing_interval_blocks,
                           in_state.last_payment_block, in_state.is_active,
                           in_state.remaining_balance))} \cup tt[1],
                       {Slot(NftApp, out_state)} \cup tt[2])
             out_decoded == ValueMinimalSubscriptionState(out_state).val
         IN  /\ validate_subscription_payment_full(in_state, out_decoded,
                                                   TokenApp, tx) = "true"
             /\ call' = [fn |-> "payment", first |-> call.first,
                         in_state |-> in_state, out_state |-> out_decoded,
                         tx |-> tx]
    /\ ret' = "true"
    /\ txCount' = txCount + 1
    /\ UNCHANGED <<overflowChecks, utxos, freshMints>>

Genesis == (GenesisUtxo :> Charms({})) @@ (OtherUtxo :> Charms({}))

Init ==
    /\ overflowChecks \in BOOLEAN
    /\ call = NoCall
    /\ ret = "none"
    /\ utxos = Genesis
    /\ txCount = 0
    /\ freshMints = 0

Next ==
    \/ CallCanMintToken
    \/ CallCanExecuteSubscriptionPayment
    \/ CallValidateSubscriptionPaymentFull
    \/ CallAppContract
    \/ CallCanMintNft
    \/ CallValidateSubscriptionCancellation

Spec == Init /\ [][Next]_vars

NextLedger == Commit \/ Reject

LedgerSpec == Init /\ [][NextLedger]_vars

NextChain == OpenSubscription \/ ExecutePayment

ChainSpec == Init /\ [][NextChain]_vars

(******************************* claims ************************************)

\* The first certificate of the pair among strings of charms, either shape.
FirstCertificate(strings) ==
    charm_values(NftApp, strings)[Min(Certificates(strings))]

\* The supply a certificate states: remaining, or remaining_balance.
Supply(d) ==
    IF ValueNftContent(d).some THEN d.remaining ELSE d.remaining_balance

\* The MinimalSubscriptionState certificates of the pair among strings of charms.
MinimalCertificates(strings) ==
    LET datas == charm_values(NftApp, strings)
    IN  {datas[i] : i \in {j \in 1..Len(datas) :
                              ValueMinimalSubscriptionState(datas[j]).some}}

\* The total of the credit amounts among strings of charms.
RECURSIVE TotalCredits(_)
TotalCredits(strings) ==
    IF strings = <<>> THEN 0
    ELSE (IF TokenApp \in DOMAIN Head(strings) /\ Head(strings)[TokenApp].cbor = "uint"
          THEN Head(strings)[TokenApp].value ELSE 0)
         + TotalCredits(Tail(strings))

AmountsKnown(tx) ==
    /\ sum_token_amount(TokenApp, InsCharms(tx)).some
    /\ sum_token_amount(TokenApp, tx.outs).some

\* C1: over committed transactions (each accepted under the NFT and the TOKEN
\* tag), at most one produces a certificate of the identity while consuming
\* none, and such a transaction consumes the output the identity commits to.
C1_SingleIssuance ==
    /\ freshMints <= 1
    /\ (call.fn = "commit" /\ IsFreshMint(call.tx))
          => \E i \in 1..Len(call.tx.ins) : hash(UtxoIdToString(call.tx.ins[i].utxo_id))
                                               = Identity

\* C2: with no certificate consumed and a certificate produced, can_mint_token
\* accepts iff no credits are consumed and the credits produced equal the
\* produced certificate's remaining (NftContent) or remaining_balance
\* (MinimalSubscriptionState).
C2_InitialIssuance ==
    (/\ call.fn = "can_mint_token"
     /\ Certificates(InsCharms(call.tx)) = {}
     /\ Certificates(call.tx.outs) # {})
    => (ret = "true"
          <=> /\ AmountsKnown(call.tx)
              /\ TotalCredits(InsCharms(call.tx)) = 0
              /\ TotalCredits(call.tx.outs) = Supply(FirstCertificate(call.tx.outs)))

\* C3: with an NftContent certificate consumed and one produced, can_mint_token
\* accepts iff incoming_supply >= outgoing_supply and the credits produced
\* minus the credits consumed equal incoming_supply - outgoing_supply.
C3_GovernedMint ==
    (/\ call.fn = "can_mint_token"
     /\ Certificates(InsCharms(call.tx)) # {}
     /\ Certificates(call.tx.outs) # {}
     /\ ValueNftContent(FirstCertificate(InsCharms(call.tx))).some
     /\ ValueNftContent(FirstCertificate(call.tx.outs)).some)
    => LET incoming_supply == FirstCertificate(InsCharms(call.tx)).remaining
           outgoing_supply == FirstCertificate(call.tx.outs).remaining
       IN  ret = "true"
             <=> /\ AmountsKnown(call.tx)
                 /\ incoming_supply >= outgoing_supply
                 /\ TotalCredits(call.tx.outs) - TotalCredits(InsCharms(call.tx))
                       = incoming_supply - outgoing_supply

\* C4: the full-state payment check succeeds only if the produced
\* remaining_balance is exactly the consumed remaining_balance minus amount_sats.
C4_ExactBalanceDecrease ==
    (call.fn = "validate_subscription_payment_full" /\ ret = "true")
    => /\ call.in_state.remaining_balance >= call.in_state.amount_sats
       /\ call.out_state.remaining_balance
             = call.in_state.remaining_balance - call.in_state.amount_sats

C4_Witness ==
    /\ call.fn = "validate_subscription_payment_full"
    /\ ret = "true"
    /\ call.in_state.amount_sats > 0
    /\ call.out_state.remaining_balance > 0

\* What the full-state check requires besides activity and the immutable fields.
BalanceBlockAndCreditsConsistent ==
    /\ call.in_state.remaining_balance >= call.in_state.amount_sats
    /\ call.out_state.remaining_balance
          = call.in_state.remaining_balance - call.in_state.amount_sats
    /\ call.out_state.last_payment_block >= call.in_state.last_payment_block
    /\ AmountsKnown(call.tx)
    /\ TotalCredits(call.tx.outs) = TotalCredits(InsCharms(call.tx))

ImmutableFieldsEqual ==
    /\ call.in_state.payer_pubkey = call.out_state.payer_pubkey
    /\ call.in_state.merchant_pubkey = call.out_state.merchant_pubkey
    /\ call.in_state.amount_sats = call.out_state.amount_sats
    /\ call.in_state.billing_interval_blocks = call.out_state.billing_interval_blocks

\* C5: the full-state payment check returns false whenever the consumed or the
\* produced state is inactive.
C5_InactiveRejected ==
    (/\ call.fn = "validate_subscription_payment_full"
     /\ (~call.in_state.is_active \/ ~call.out_state.is_active))
    => ret = "false"

C5_Witness ==
    /\ call.fn = "validate_subscription_payment_full"
    /\ call.in_state.is_active
    /\ ~call.out_state.is_active
    /\ ImmutableFieldsEqual
    /\ BalanceBlockAndCreditsConsistent
    /\ ret = "false"

\* C6: the full-state payment check returns false whenever payer_pubkey,
\* merchant_pubkey, amount_sats or billing_interval_blocks differs between the
\* consumed and the produced state; an accepted payment keeps all four.
C6_ImmutableFieldsKept ==
    (call.fn = "validate_subscription_payment_full" /\ ~ImmutableFieldsEqual)
    => ret = "false"

C6_Witness ==
    /\ call.fn = "validate_subscription_payment_full"
    /\ call.in_state.is_active
    /\ call.out_state.is_active
    /\ call.in_state.payer_pubkey = call.out_state.payer_pubkey
    /\ call.in_state.merchant_pubkey = call.out_state.merchant_pubkey
    /\ call.in_state.billing_interval_blocks = call.out_state.billing_interval_blocks
    /\ call.in_state.amount_sats # call.out_state.amount_sats
    /\ BalanceBlockAndCreditsConsistent
    /\ ret = "false"

\* C7: every transaction the payment validator accepts, on the full-state path
\* or the legacy path, produces the total of credits it consumes.
C7_CreditsConserved ==
    (/\ call.fn \in {"can_execute_subscription_payment",
                     "validate_subscription_payment_full"}
     /\ ret = "true")
    => /\ AmountsKnown(call.tx)
       /\ TotalCredits(call.tx.outs) = TotalCredits(InsCharms(call.tx))

C7_Witness ==
    /\ call.fn = "can_execute_subscription_payment"
    /\ ret = "true"
    /\ MinimalCertificates(InsCharms(call.tx)) = {}
    /\ TotalCredits(call.tx.outs) > 0

\* C8: a committed transaction (accepted under the TOKEN tag) that consumes one
\* MinimalSubscriptionState certificate, active, and produces one, lowers
\* remaining_balance by exactly amount_sats.
C8_BalanceSteps ==
    (/\ call.fn = "commit"
     /\ Cardinality(MinimalCertificates(InsCharms(call.tx))) = 1
     /\ Cardinality(MinimalCertificates(call.tx.outs)) = 1)
    => \A i \in MinimalCertificates(InsCharms(call.tx)),
          o \in MinimalCertificates(call.tx.outs) :
          i.is_active => /\ o.remaining_balance <= i.remaining_balance
                         /\ i.remaining_balance - o.remaining_balance = i.amount_sats

\* C9: no committed transaction consumes an inactive MinimalSubscriptionState
\* certificate and produces an active one of the same identity.
C9_NoReactivation ==
    (/\ call.fn = "commit"
     /\ Cardinality(MinimalCertificates(InsCharms(call.tx))) = 1
     /\ Cardinality(MinimalCertificates(call.tx.outs)) = 1)
    => \A i \in MinimalCertificates(InsCharms(call.tx)),
          o \in MinimalCertificates(call.tx.outs) :
          ~(~i.is_active /\ o.is_active)

\* C10: with an empty public input and the TOKEN tag, app_contract returns true
\* iff can_mint_token holds, or returned false and
\* can_execute_subscription_payment holds; otherwise it returns false.
C10_TokenDispatch ==
    (call.fn = "app_contract" /\ call.x = EmptyData /\ call.app.tag = TOKEN)
    => LET minted == can_mint_token(call.app, call.tx)
           paid == can_execute_subscription_payment(call.app, call.tx)
       IN  /\ ret = "true" <=> (minted = "true" \/ (minted = "false" /\ paid = "true"))
           /\ ret # "true" => ret = "false"

\* C11: with an empty public input and the NFT tag, app_contract returns true
\* iff can_mint_nft holds with the witness or can_mint_token holds on the
\* paired TOKEN application.
C11_NftDispatch ==
    (call.fn = "app_contract" /\ call.x = EmptyData /\ call.app.tag = NFT)
    => (ret = "true"
          <=> \/ can_mint_nft(call.app, call.tx, call.w) = "true"
              \/ can_mint_token(PairedApp(call.app, TOKEN), call.tx) = "true")

\* The produced payloads that belong to the called application.
ProducedFor(app, tx) == charm_values(app, tx.outs)

\* What the fresh-mint check requires, stated over the identifiers' text.
FreshMintConditions ==
    /\ ValueString(call.w).some
    /\ hash(call.w.text) = call.app.identity
    /\ \E i \in 1..Len(call.tx.ins) :
          UtxoIdToString(call.tx.ins[i].utxo_id) = call.w.text
    /\ Len(ProducedFor(call.app, call.tx)) = 1
    /\ \/ ValueMinimalSubscriptionState(ProducedFor(call.app, call.tx)[1]).some
       \/ ValueNftContent(ProducedFor(call.app, call.tx)[1]).some

\* C12: can_mint_nft returns true when the witness is a string whose hash is
\* app.identity and which names a consumed output, and exactly one produced
\* payload belongs to the application and decodes as MinimalSubscriptionState
\* or NftContent; in every other case it returns false.
C12_FreshMint ==
    call.fn = "can_mint_nft" => ret = Bool(FreshMintConditions)

\* C13: app_contract called with a public input that is not the empty payload
\* aborts, whatever the tag, the transaction and the witness, and whatever
\* the validators would return.
C13_PublicInputAbort ==
    (call.fn = "app_contract" /\ call.x # EmptyData) => ret = "panic"

C13_Witness ==
    /\ call.fn = "app_contract"
    /\ call.x # EmptyData
    /\ call.app.tag = TOKEN
    /\ token_contract_satisfied(call.app, call.tx) = "true"
    /\ ret = "panic"

\* C14: app_contract called with an empty public input and a tag that is
\* neither NFT nor TOKEN aborts, whatever the transaction and the witness.
C14_OtherTagAbort ==
    (call.fn = "app_contract" /\ call.x = EmptyData
                              /\ call.app.tag \notin {NFT, TOKEN})
    => ret = "panic"

C14_Witness ==
    /\ call.fn = "app_contract"
    /\ call.x = EmptyData
    /\ call.app.tag \notin {NFT, TOKEN}
    /\ token_contract_satisfied(PairedApp(call.app, TOKEN), call.tx) = "true"
    /\ ret = "panic"

\* C15: validate_subscription_cancellation returns true when in.is_active,
\* not out.is_active, out.remaining_balance = 0 and the four immutable fields
\* are equal, and false otherwise: whatever the transaction, the two
\* last_payment_block values and in.remaining_balance.
C15_Cancellation ==
    call.fn = "validate_subscription_cancellation"
    => ret = Bool(/\ call.in_state.is_active
                  /\ ~call.out_state.is_active
                  /\ call.out_state.remaining_balance = 0
                  /\ ImmutableFieldsEqual)

C15_Witness ==
    /\ call.fn = "validate_subscription_cancellation"
    /\ ret = "true"
    /\ call.in_state.remaining_balance > 0
    /\ call.out_state.last_payment_block < call.in_state.last_payment_block
    /\ TotalCredits(call.tx.outs) # TotalCredits(InsCharms(call.tx))

\* C16: in the full-state payment check a produced remaining_balance above the
\* consumed one is an ordinary failure: the check returns false; it neither
\* aborts on the subtraction nor accepts a wrapped difference.
C16_BalanceUnderflowRejected ==
    (/\ call.fn = "validate_subscription_payment_full"
     /\ call.out_state.remaining_balance > call.in_state.remaining_balance)
    => ret = "false"

\* C17: when can_mint_token finds an NftContent certificate among the consumed
\* and the produced outputs, it accepts only if the credits produced are at
\* least the credits consumed and their difference is the decrease of
\* remaining; with fewer credits produced than consumed it returns false.
C17_TrueDifferences ==
    (/\ call.fn = "can_mint_token"
     /\ Certificates(InsCharms(call.tx)) # {}
     /\ Certificates(call.tx.outs) # {}
     /\ ValueNftContent(FirstCertificate(InsCharms(call.tx))).some
     /\ ValueNftContent(FirstCertificate(call.tx.outs)).some
     /\ AmountsKnown(call.tx))
    => LET incoming_supply == FirstCertificate(InsCharms(call.tx)).remaining
           outgoing_supply == FirstCertificate(call.tx.outs).remaining
           input_token_amount == TotalCredits(InsCharms(call.tx))
           output_token_amount == TotalCredits(call.tx.outs)
       IN  /\ ret = "true"
                => /\ output_token_amount >= input_token_amount
                   /\ output_token_amount - input_token_amount
                         = incoming_supply - outgoing_supply
           /\ output_token_amount < input_token_amount => ret = "false"

LegacyCertificates(strings) ==
    LET datas == charm_values(NftApp, strings)
    IN  {datas[i] : i \in {j \in 1..Len(datas) : ValueNftContent(datas[j]).some}}

\* C19: when the consumed and the produced certificate do not both decode as
\* MinimalSubscriptionState, can_execute_subscription_payment returns true
\* when an NftContent certificate is consumed and one is produced, the
\* consumed remaining >= the produced remaining and the credit totals are
\* equal, and false otherwise: so with no certificate on a side, and with a
\* MinimalSubscriptionState on one side and an NftContent on the other.
C19_LegacyPath ==
    (/\ call.fn = "can_execute_subscription_payment"
     /\ ~(/\ MinimalCertificates(InsCharms(call.tx)) # {}
          /\ MinimalCertificates(call.tx.outs) # {}))
    => ret = Bool(/\ \E i \in LegacyCertificates(InsCharms(call.tx)),
                        o \in LegacyCertificates(call.tx.outs) :
                        i.remaining >= o.remaining
                  /\ AmountsKnown(call.tx)
                  /\ TotalCredits(call.tx.outs) = TotalCredits(InsCharms(call.tx)))

C19_Witness ==
    /\ call.fn = "can_execute_subscription_payment"
    /\ MinimalCertificates(InsCharms(call.tx)) # {}
    /\ LegacyCertificates(call.tx.outs) # {}
    /\ AmountsKnown(call.tx)
    /\ TotalCredits(call.tx.outs) = TotalCredits(InsCharms(call.tx))
    /\ TotalCredits(call.tx.outs) > 0
    /\ ret = "false"

\* A call of app_contract under the TOKEN tag that the payment validator
\* accepted: the transaction does not consume the output the identity commits
\* to, consumes one certificate and produces one with a lower balance, and
\* conserves credits.
BalanceDecreasingPayment ==
    /\ call.fn = "app_contract"
    /\ call.x = EmptyData
    /\ call.app.tag = TOKEN
    /\ call.app.identity = Identity
    /\ \A i \in 1..Len(call.tx.ins) : call.tx.ins[i].utxo_id # GenesisUtxo
    /\ Cardinality(Certificates(InsCharms(call.tx))) = 1
    /\ Cardinality(Certificates(call.tx.outs)) = 1
    /\ Supply(FirstCertificate(InsCharms(call.tx)))
          > Supply(FirstCertificate(call.tx.outs))
    /\ AmountsKnown(call.tx)
    /\ TotalCredits(call.tx.outs) = TotalCredits(InsCharms(call.tx))
    /\ can_mint_token(call.app, call.tx) = "false"
    /\ can_execute_subscription_payment(call.app, call.tx) = "true"
    /\ ret = "true"

\* C20: a balance-decreasing payment that app_contract accepts under the TOKEN
\* tag through the payment validator is rejected by app_contract under the
\* NFT tag of the paired application, for either certificate format.
C20_PaymentRejectedUnderNft ==
    BalanceDecreasingPayment
    => app_contract(PairedApp(call.app, NFT), call.tx, call.x, call.w) = "false"

C20_Witness ==
    /\ BalanceDecreasingPayment
    /\ MinimalCertificates(InsCharms(call.tx)) # {}
    /\ MinimalCertificates(call.tx.outs) # {}
    /\ call.w = Text(UtxoIdToString(GenesisUtxo))
    /\ app_contract(PairedApp(call.app, NFT), call.tx, call.x, call.w) = "false"

====
